---------------------------- MODULE Spec2Model ----------------------------
(***************************************************************************)
(* A model of the fact-check pipeline of fact_check_bot.py and of the text *)
(* tab of app.py: the two entry functions fact_check_url and               *)
(* fact_check_text, the crew of five sequential tasks they kick off, and   *)
(* the extractor (FirecrawlTool._run with _fallback_scrape).               *)
(*                                                                         *)
(* Strings.  A URL is a sequence of one-character strings, so that the     *)
(* regular expressions and substring tests of the code are computed on the *)
(* characters.  Every other Python string is a sequence of chunks; a chunk *)
(* is a record [t, n]: Lit(x) is the literal text x (n = its length),      *)
(* Words(k) stands for k characters of running prose that holds none of    *)
(* the words the code searches for and no white space at its ends, and     *)
(* Blank(k) stands for k white-space characters.  The words the code       *)
(* searches for ("Error", "Example Domain", "verifiable claims", "# ")     *)
(* are always chunks of their own, so `w in s` is a test for a contiguous  *)
(* run of chunks and len(s) is the sum of the chunk lengths.               *)
(***************************************************************************)
EXTENDS Integers, Sequences, FiniteSets, TLC

(***************************************************************************)
(* Bounds of the model.                                                    *)
(***************************************************************************)
\* the longest path, in segments, of a generated URL
MaxSegs == 2

\* the invocations that may be under way at the same time
MaxRuns == 2

(***************************************************************************)
(* Python string operations.                                               *)
(***************************************************************************)
Lit(x) == [t |-> x, n |-> Len(x)]

Words(k) == [t |-> "~", n |-> k]

Blank(k) == [t |-> " ", n |-> k]

\* len(s) of a chunk string
RECURSIVE StrLen(_)
StrLen(s) == IF s = <<>> THEN 0 ELSE Head(s).n + StrLen(Tail(s))

\* w in s (also used on URLs, character by character)
Contains(s, w) ==
    \E i \in 0..(Len(s) - Len(w)) : SubSeq(s, i + 1, i + Len(w)) = w

\* s.startswith(p)
StartsWith(s, p) == Len(s) >= Len(p) /\ SubSeq(s, 1, Len(p)) = p

\* a URL interpolated into an f-string
Emb(u) == [i \in 1..Len(u) |-> Lit(u[i])]

\* one literal as a string
S(x) == <<Lit(x)>>

Min(set) == CHOOSE x \in set : \A y \in set : x <= y

(***************************************************************************)
(* The URLs handed to the entry point and to the extractor.                *)
(***************************************************************************)
HTTP == <<"h", "t", "t", "p", ":", "/", "/">>

HTTPS == <<"h", "t", "t", "p", "s", ":", "/", "/">>

FTP == <<"f", "t", "p", ":", "/", "/">>

HostPlain == <<"a", ".", "c", "o">>

HostBBC == <<"b", "b", "c", ".", "c", "o", "m">>

HostBBCUK == <<"b", "b", "c", ".", "c", "o", ".", "u", "k">>

HostExample == <<"e", "x", "a", "m", "p", "l", "e", ".", "c", "o", "m">>

Schemes == {HTTP, HTTPS}

Hosts == {HostPlain, HostBBC}

\* path segments: a word, the year of the clock, and the year after it
Segs == {<<"n">>, <<"2", "0", "2", "6">>, <<"2", "0", "2", "7">>}

\* the years datetime.now().year answers
ClockYears == {2026}

\* every sequence of at most k segments
RECURSIVE SegSeqs(_)
SegSeqs(k) ==
    IF k = 0 THEN {<<>>}
    ELSE LET shorter == SegSeqs(k - 1)
         IN  shorter \cup {Append(p, s) : p \in shorter, s \in Segs}

RECURSIVE PathStr(_)
PathStr(p) == IF p = <<>> THEN <<>> ELSE <<"/">> \o Head(p) \o PathStr(Tail(p))

\* URLs that are no URL: empty, no scheme, another scheme, a one-character
\* host, white space before or inside
MalformedUrls ==
    { <<>>,
      <<"n", "o", "t", "-", "a", "-", "u", "r", "l">>,
      HostPlain \o <<"/", "n">>,
      FTP \o HostPlain \o <<"/", "n">>,
      HTTP,
      HTTP \o <<"a">>,
      HTTP \o <<" ">> \o HostPlain,
      <<" ">> \o HTTP \o HostPlain,
      HTTPS \o HostPlain \o <<"/", "n", " ", "n">>,
      HTTP \o <<".", "a">> }

\* strings the pattern accepts although they are odd
OddUrls ==
    { HTTP \o <<"a", " ", "b">>,
      HTTP \o HostPlain \o <<"\n">>,
      HTTPS \o HostBBCUK \o <<"/", "n">> }

Urls ==
    { s \o h \o PathStr(p) \o t :
        s \in Schemes, h \in Hosts, p \in SegSeqs(MaxSegs), t \in {<<>>, <<"/">>} }
    \cup MalformedUrls \cup OddUrls

(***************************************************************************)
(* fact_check_url: the validation of its argument.                         *)
(***************************************************************************)
WhiteSpace == {" ", "\n", "\t", "\r"}

Digits == <<"0", "1", "2", "3", "4", "5", "6", "7", "8", "9">>

IsDigit(c) == \E k \in 1..10 : Digits[k] = c

DigitVal(c) == (CHOOSE k \in 1..10 : Digits[k] = c) - 1

\* int(d) of a string of digits
RECURSIVE IntOf(_)
IntOf(d) ==
    IF d = <<>> THEN 0
    ELSE 10 * IntOf(SubSeq(d, 1, Len(d) - 1)) + DigitVal(d[Len(d)])

\* the length of the scheme "http://" or "https://" at the start of u, 0 if none
SchemeLen(u) ==
    IF StartsWith(u, HTTPS) THEN Len(HTTPS)
    ELSE IF StartsWith(u, HTTP) THEN Len(HTTP)
    ELSE 0

\* re.compile(r'^https?://[^\s/$.?#].[^\s]*$').match(u): after the scheme one
\* character that is no white space and none of / $ . ? #, then any character
\* but a newline, then characters that are no white space up to the end of the
\* string or to the newline that ends it
UrlPatternMatch(u) ==
    LET p == SchemeLen(u)
        n == Len(u)
    IN  /\ p > 0
        /\ n >= p + 2
        /\ u[p + 1] \notin WhiteSpace \cup {"/", "$", ".", "?", "#"}
        /\ u[p + 2] # "\n"
        /\ \E e \in {n - 1, n} :
              /\ e >= p + 2
              /\ e = n - 1 => u[n] = "\n"
              /\ \A i \in (p + 3)..e : u[i] \notin WhiteSpace

\* the places where r'/(\d{4})/' matches in u
YearMatches(u) ==
    { i \in 1..(Len(u) - 5) :
        /\ u[i] = "/"
        /\ \A k \in 1..4 : IsDigit(u[i + k])
        /\ u[i + 5] = "/" }

\* re.search(r'/(\d{4})/', u): the leftmost match, 0 if there is none
YearSearch(u) == IF YearMatches(u) = {} THEN 0 ELSE Min(YearMatches(u))

InvalidUrlMsg ==
    <<Lit("Error"), Lit(":"), Lit(" Invalid URL format"),
      Lit(". Please provide a valid URL starting with http:// or https://.")>>

FutureDateMsg(year) ==
    <<Lit("Error"), Lit(":"), Lit(" URL contains a future date ("),
      Lit(ToString(year)),
      Lit("), which may not be valid. Please check the URL.")>>

\* ValidateUrl without the format check of lines 660-663
ValidateUrlNoFormat(u, current_year) ==
    LET m == YearSearch(u)
        year == IntOf(SubSeq(u, m + 1, m + 4))
    IN  IF m # 0 /\ year > current_year
        THEN [ret |-> FutureDateMsg(year), where |-> "future_date"]
        ELSE [ret |-> <<>>, where |-> "pass"]

\* lines 659-676: what the validation returns, with the place of the return
\* statement; where = "pass" when the URL passes.  The except branch of the
\* date check cannot be taken: int() of four digits does not raise.
ValidateUrl(u, current_year) ==
    IF ~UrlPatternMatch(u)
    THEN [ret |-> InvalidUrlMsg, where |-> "invalid_url"]
    ELSE LET m == YearSearch(u)
             year == IntOf(SubSeq(u, m + 1, m + 4))
         IN  IF m # 0 /\ year > current_year
             THEN [ret |-> FutureDateMsg(year), where |-> "future_date"]
             ELSE [ret |-> <<>>, where |-> "pass"]

\* is_bbc_article
IsBBC(u) == Contains(u, HostBBC) \/ Contains(u, HostBBCUK)

(***************************************************************************)
(* More string operations, used by the extractor.                          *)
(***************************************************************************)
IsBlank(c) == c.t \in {" ", "\n", "\n\n", "\t"}

\* s.strip()
RECURSIVE LStrip(_)
LStrip(s) == IF s # <<>> /\ IsBlank(Head(s)) THEN LStrip(Tail(s)) ELSE s

RECURSIVE RStrip(_)
RStrip(s) ==
    IF s # <<>> /\ IsBlank(s[Len(s)]) THEN RStrip(SubSeq(s, 1, Len(s) - 1)) ELSE s

Strip(s) == RStrip(LStrip(s))

\* s[:k]
RECURSIVE Take(_, _)
Take(s, k) ==
    IF s = <<>> \/ k <= 0 THEN <<>>
    ELSE IF Head(s).n <= k THEN <<Head(s)>> \o Take(Tail(s), k - Head(s).n)
    ELSE <<[t |-> Head(s).t, n |-> k]>>

\* the chunks and characters that have upper-case letters, and their lower case
UpperTexts ==
    <<"Share this", "Follow us", "Subscribe", "Cookie", "Newsletter",
      "Verifiable Claims", "E", "X", "B", "C", "F", "M">>

LowerTexts ==
    <<"share this", "follow us", "subscribe", "cookie", "newsletter",
      "verifiable claims", "e", "x", "b", "c", "f", "m">>

LowerText(x) ==
    IF \E k \in 1..Len(UpperTexts) : UpperTexts[k] = x
    THEN LowerTexts[CHOOSE k \in 1..Len(UpperTexts) : UpperTexts[k] = x]
    ELSE x

\* s.lower() of a chunk string, and of a URL
Lower(s) == [i \in 1..Len(s) |-> [t |-> LowerText(s[i].t), n |-> s[i].n]]

LowerUrl(u) == [i \in 1..Len(u) |-> LowerText(u[i])]

\* sep.join(blocks)
RECURSIVE Join(_, _)
Join(sep, blocks) ==
    IF blocks = <<>> THEN <<>>
    ELSE IF Len(blocks) = 1 THEN Head(blocks)
    ELSE Head(blocks) \o sep \o Join(sep, Tail(blocks))

\* [f(x) for x in seq]
MapSeq(seq, f(_)) == [i \in 1..Len(seq) |-> f(seq[i])]

\* [f(x) for x in seq if keep(x)]
SelectMap(seq, keep(_), f(_)) == MapSeq(SelectSeq(seq, keep), f)

(***************************************************************************)
(* FirecrawlTool._fallback_scrape.  The page requests.get answers is       *)
(* [kind, code, etext, redirect, doc]: kind "exc" when the request raises  *)
(* (etext the exception's text), "status" for an answer with status `code`,*)
(* "parsefault" when the answer is 200 and parsing it raises; redirect is   *)
(* the URL the request ended at when it was redirected, else <<>>.  doc is *)
(* what BeautifulSoup finds in the page: h1 (no or one headline element),  *)
(* bbc_paras (the paragraphs met while iterating the BBC containers and    *)
(* paragraph selectors, each [cls, text]), meta (the metadata elements),   *)
(* paras (every p element of the page), main (no or one generic content    *)
(* container, as the list of its p elements) and body (no or one body).    *)
(***************************************************************************)
NoisePhrases == {"Share this", "Follow us", "Subscribe", "Cookie", "Newsletter"}

\* line 298: the class attribute names navigation, social, share or hidden
SkipClass(cls) == cls \in {"navigation", "social", "share", "hidden"}

\* lines 260-266: the headline block
HeadlineBlocks(doc) ==
    IF doc.h1 = <<>> THEN <<>> ELSE <<S("# ") \o Strip(doc.h1[1])>>

BBCParaKeep(p) ==
    /\ ~SkipClass(p.cls)
    /\ Strip(p.text) # <<>>
    /\ StrLen(Strip(p.text)) > 10
    /\ ~StartsWith(Strip(p.text), S("Share this"))

BBCParaText(p) == Strip(p.text)

\* lines 290-304
BBCParaBlocks(doc) == SelectMap(doc.bbc_paras, BBCParaKeep, BBCParaText)

MetaKeep(m) ==
    /\ Strip(m) # <<>>
    /\ ~\E skip \in {"share this", "follow us", "subscribe"} :
           Contains(Lower(Strip(m)), S(skip))

MetaText(m) == S("*") \o Strip(m) \o S("*")

\* lines 322-330
MetaBlocks(doc) == SelectMap(doc.meta, MetaKeep, MetaText)

StripText(p) == Strip(p)

BBCGenericKeep(p) ==
    /\ Strip(p) # <<>>
    /\ StrLen(Strip(p)) > 40
    /\ ~\E skip \in {"cookie", "subscribe", "newsletter", "share this"} :
           Contains(Lower(Strip(p)), S(skip))

\* lines 332-342: the paragraphs of the page when nothing was found
OrBBCGeneric(doc, content_blocks) ==
    IF content_blocks # <<>> THEN content_blocks
    ELSE SelectMap(doc.paras, BBCGenericKeep, StripText)

\* lines 247-342: the BBC tier
BBCBlocks(doc) ==
    OrBBCGeneric(doc, HeadlineBlocks(doc) \o BBCParaBlocks(doc) \o MetaBlocks(doc))

MainKeep(p) == Strip(p) # <<>> /\ StrLen(Strip(p)) > 30

AllParasKeep(p) == Strip(p) # <<>> /\ StrLen(Strip(p)) > 50

\* lines 345-364: the generic tier, tried when there is no block yet: the
\* paragraphs of the main container when there is one, else all paragraphs
OrGeneric(doc, content_blocks) ==
    IF content_blocks # <<>> THEN content_blocks
    ELSE IF doc.main # <<>>
    THEN SelectMap(doc.main[1], MainKeep, StripText)
    ELSE SelectMap(doc.paras, AllParasKeep, StripText)

\* re.sub(r'\s+', ' ', s)
Squeeze(s) == [i \in 1..Len(s) |-> IF IsBlank(s[i]) THEN Lit(" ") ELSE s[i]]

\* s without its chunks up to and including the first "." (all of it if none)
RECURSIVE AfterPeriod(_)
AfterPeriod(s) ==
    IF s = <<>> THEN <<>>
    ELSE IF Head(s) = Lit(".") THEN Tail(s)
    ELSE AfterPeriod(Tail(s))

\* re.sub(r'(Share this|Follow us|Subscribe|Cookie|Newsletter).*?(\.|$)', '',
\* s, flags=re.IGNORECASE)
RECURSIVE DropNoise(_)
DropNoise(s) ==
    IF s = <<>> THEN <<>>
    ELSE IF \E ph \in NoisePhrases : LowerText(Head(s).t) = LowerText(ph)
    THEN DropNoise(AfterPeriod(Tail(s)))
    ELSE <<Head(s)>> \o DropNoise(Tail(s))

\* line 369
BodyText(doc) == IF doc.body = <<>> THEN <<>> ELSE Strip(doc.body[1])

\* lines 367-375: the last resort, tried when there is no block yet: the body
\* text as the only block
OrBody(doc, content_blocks) ==
    IF content_blocks # <<>> THEN content_blocks
    ELSE <<Take(DropNoise(Squeeze(BodyText(doc))), 8000)>>

\* lines 245-375: the content blocks of a page
ContentBlocks(url, doc) ==
    OrBody(doc,
           OrGeneric(doc,
                     IF Contains(url, HostBBC) \/ Contains(url, HostBBCUK)
                     THEN BBCBlocks(doc) ELSE <<>>))

BlockKeep(b) == Strip(b) # <<>>

\* line 378
ArticleText(blocks) == Join(S("\n\n"), SelectMap(blocks, BlockKeep, StripText))

\* response.url
ResponseUrl(url, page) == IF page.redirect = <<>> THEN url ELSE page.redirect

\* ArticleOrError with the limit of line 384 at 50 characters
ArticleOrErrorFromFifty(url, article_text) ==
    IF StrLen(article_text) < 50
    THEN <<Lit("Error"), Lit(":"),
           Lit(" Could not extract meaningful content from ")>>
         \o Emb(url) \o S(".")
    ELSE article_text

\* lines 384-389: the article text, or the error for a text too short
ArticleOrError(url, article_text) ==
    IF StrLen(article_text) < 100
    THEN <<Lit("Error"), Lit(":"),
           Lit(" Could not extract meaningful content from ")>>
         \o Emb(url) \o S(".")
    ELSE article_text

\* line 391
StatusError(code) ==
    <<Lit("Error"), Lit(":"), Lit(" Failed to retrieve content. Status code: "),
      Lit(ToString(code))>>

\* line 241
RedirectError(url) ==
    <<Lit("Error"), Lit(":"), Lit(" Redirected to example.com while scraping ")>>
    \o Emb(url) \o S(".")

\* the try block with the page parsed before the status and the final URL
\* are looked at
FallbackTryParseFirst(url, page) ==
    IF page.kind = "exc" \/ page.kind = "parsefault"
    THEN [raised |-> TRUE, etext |-> page.etext, out |-> <<>>]
    ELSE IF page.code # 200
    THEN [raised |-> FALSE, etext |-> <<>>, out |-> StatusError(page.code)]
    ELSE IF Contains(LowerUrl(ResponseUrl(url, page)), HostExample)
    THEN [raised |-> FALSE, etext |-> <<>>, out |-> RedirectError(url)]
    ELSE [raised |-> FALSE, etext |-> <<>>,
          out |-> ArticleOrError(url,
                                 ArticleText(ContentBlocks(url, page.doc)))]

\* the try block of _fallback_scrape, lines 216-393: [raised, etext, out].
\* The request raises (line 232), or the status is not 200 (lines 390-393),
\* or the final URL is on example.com (lines 239-241); only then is the page
\* parsed (lines 243-244), which may raise, and the tiers are tried.
FallbackTry(url, page) ==
    IF page.kind = "exc"
    THEN [raised |-> TRUE, etext |-> page.etext, out |-> <<>>]
    ELSE IF page.code # 200
    THEN [raised |-> FALSE, etext |-> <<>>, out |-> StatusError(page.code)]
    ELSE IF Contains(LowerUrl(ResponseUrl(url, page)), HostExample)
    THEN [raised |-> FALSE, etext |-> <<>>, out |-> RedirectError(url)]
    ELSE IF page.kind = "parsefault"
    THEN [raised |-> TRUE, etext |-> page.etext, out |-> <<>>]
    ELSE [raised |-> FALSE, etext |-> <<>>,
          out |-> ArticleOrError(url,
                                 ArticleText(ContentBlocks(url, page.doc)))]

\* _fallback_scrape without the except clause of lines 394-397
FallbackNoExcept(url, r) ==
    [out |-> r.out, raised |-> r.raised, etext |-> r.etext,
     net |-> <<[op |-> "get", url |-> url]>>]

\* lines 394-397: whatever the try block raises comes back as a string
FallbackExcept(url, r) ==
    [out |-> IF r.raised
             THEN <<Lit("Error"), Lit(" scraping URL ")>> \o Emb(url)
                  \o S(": ") \o r.etext
             ELSE r.out,
     raised |-> FALSE,
     etext |-> <<>>,
     net |-> <<[op |-> "get", url |-> url]>>]

\* _fallback_scrape, lines 212-397: one page fetch, and a string comes back
FallbackScrape(url, page) == FallbackExcept(url, FallbackTry(url, page))

(***************************************************************************)
(* FirecrawlTool._run.  ctx is what Task.current() gives: kind "raise"     *)
(* (the lookup raises), "none" (no task or no context), "nourl" (a context *)
(* without URL) or "url" (a context with the URL ctx.url).  key tells      *)
(* whether FIRECRAWL_API_KEY is set.  presp is the answer of the primary   *)
(* API: kind "exc" (requests.post raises a RequestException), "fault"      *)
(* (another exception: the body is no JSON, or its data is null) or "ok"   *)
(* with the status code, the success flag and the content of the answer.   *)
(***************************************************************************)
\* a value that is not a string (an int), as a context may hold: one element
\* that is no character
NotAString == <<"<class 'int'>">>

\* line 122: isinstance(url, str)
IsStr(u) == u # NotAString

\* the call works with its argument, whatever the context holds
EffectiveUrlArgument(url, ctx) == url

\* lines 88-107: the URL the call works with
EffectiveUrl(url, ctx) ==
    IF ctx.kind = "url" /\ ctx.url # <<>> /\ url # ctx.url THEN ctx.url ELSE url

\* PrimaryAccepted with the length test of line 180 on the content as it
\* came and from 100 characters on
PrimaryAcceptedFromHundred(presp) ==
    /\ presp.kind = "ok"
    /\ presp.code = 200
    /\ presp.success
    /\ presp.content # <<>>
    /\ StrLen(presp.content) >= 100
    /\ ~Contains(presp.content, S("Example Domain"))

\* lines 174-180: the primary answer is used
PrimaryAccepted(presp) ==
    /\ presp.kind = "ok"
    /\ presp.code = 200
    /\ presp.success
    /\ presp.content # <<>>
    /\ StrLen(Strip(presp.content)) > 100
    /\ ~Contains(presp.content, S("Example Domain"))

\* the returns of lines 120, 125 and 131
EarlyError(u, msg) ==
    [out |-> <<Lit("Error"), Lit(":"), Lit(msg)>>, raised |-> FALSE,
     etext |-> <<>>, net |-> <<>>, url |-> u, fallbacks |-> 0]

\* the fallback followed by the requests made before it, once more
ViaFallbackRetried(u, before, fb) ==
    [out |-> fb.out, raised |-> fb.raised, etext |-> fb.etext,
     net |-> before \o fb.net \o before, url |-> u, fallbacks |-> 1]

\* return self._fallback_scrape(url), after the requests made before it
ViaFallback(u, before, fb) ==
    [out |-> fb.out, raised |-> fb.raised, etext |-> fb.etext,
     net |-> before \o fb.net, url |-> u, fallbacks |-> 1]

\* lines 116-210, for the effective URL u
RunOn(u, key, presp, page) ==
    IF u = <<>> THEN EarlyError(u, " No URL provided")
    ELSE IF ~IsStr(u) THEN EarlyError(u, " Invalid URL type: <class 'int'>")
    ELSE IF ~(StartsWith(u, HTTP) \/ StartsWith(u, HTTPS))
    THEN EarlyError(u, " Invalid URL format. URL must start with http:// or https://")
    ELSE IF ~key THEN ViaFallback(u, <<>>, FallbackScrape(u, page))
    ELSE IF PrimaryAccepted(presp)
    THEN [out |-> presp.content, raised |-> FALSE, etext |-> <<>>,
          net |-> <<[op |-> "post", url |-> u]>>, url |-> u, fallbacks |-> 0]
    ELSE ViaFallback(u, <<[op |-> "post", url |-> u]>>, FallbackScrape(u, page))

\* _run, lines 80-210: [out, raised, etext, net, url, fallbacks], net the
\* requests made in their order, fallbacks the calls of _fallback_scrape
Run(url, ctx, key, presp, page) == RunOn(EffectiveUrl(url, ctx), key, presp, page)

(***************************************************************************)
(* The pages, answers and contexts the extractor meets.                    *)
(***************************************************************************)
EmptyDoc ==
    [h1 |-> <<>>, bbc_paras |-> <<>>, meta |-> <<>>, paras |-> <<>>,
     main |-> <<>>, body |-> <<>>]

\* an article of two long paragraphs in a content container
DocLong ==
    [EmptyDoc EXCEPT !.paras = <<<<Words(400)>>, <<Words(300)>>>>,
                     !.main = <<<<<<Words(400)>>, <<Words(300)>>>>>>,
                     !.body = <<<<Words(400), Blank(2), Words(300)>>>>]

\* a shorter article: 300 characters once joined
DocMid ==
    [EmptyDoc EXCEPT !.paras = <<<<Blank(1), Words(150)>>, <<Words(148), Blank(3)>>>>,
                     !.body = <<<<Words(150), Blank(2), Words(148)>>>>]

\* one paragraph of exactly 100 characters, and one of 99
DocHundred ==
    [EmptyDoc EXCEPT !.paras = <<<<Words(100)>>>>, !.body = <<<<Words(100)>>>>]

DocNinetyNine ==
    [EmptyDoc EXCEPT !.paras = <<<<Words(99)>>>>, !.body = <<<<Words(99)>>>>]

\* a content container whose paragraphs are too short, long paragraphs elsewhere
DocMainShort ==
    [EmptyDoc EXCEPT !.paras = <<<<Words(20)>>, <<Words(200)>>>>,
                     !.main = <<<<<<Words(20)>>>>>>,
                     !.body = <<<<Words(20), Blank(1), Words(200)>>>>]

\* a BBC article: headline, container paragraphs (one shared, one of a share
\* widget, one short) and metadata
DocBBC ==
    [EmptyDoc EXCEPT
        !.h1 = <<<<Blank(1), Words(40)>>>>,
        !.bbc_paras = << [cls |-> "", text |-> <<Words(300)>>],
                         [cls |-> "share", text |-> <<Words(50)>>],
                         [cls |-> "", text |-> <<Lit("Share this"), Words(30)>>],
                         [cls |-> "", text |-> <<Words(8)>>],
                         [cls |-> "", text |-> <<Words(260)>>] >>,
        !.meta = <<<<Words(15)>>, <<Lit("Follow us"), Words(10)>>>>,
        !.paras = <<<<Words(300)>>, <<Words(50)>>, <<Words(260)>>>>,
        !.body = <<<<Words(40), Blank(1), Words(300), Blank(1), Words(260)>>>>]

\* a page with a headline and paragraphs outside every BBC container
DocHeadlineOnly ==
    [EmptyDoc EXCEPT !.h1 = <<<<Words(40)>>>>,
                     !.paras = <<<<Words(200)>>, <<Lit("Cookie"), Words(80)>>>>,
                     !.body = <<<<Words(40), Blank(1), Words(200)>>>>]

\* plain paragraphs, one of them boilerplate
DocParas ==
    [EmptyDoc EXCEPT !.paras = <<<<Words(45)>>, <<Lit("Cookie"), Words(80)>>,
                                 <<Words(120)>>>>,
                     !.body = <<<<Words(45), Blank(1), Lit("Cookie"), Words(80),
                                  Lit("."), Blank(1), Words(120)>>>>]

\* no structure at all: body text with boilerplate sentences
DocBodyNoise ==
    [EmptyDoc EXCEPT
        !.body = <<<<Blank(3), Words(200), Lit("."), Blank(2), Lit("Subscribe"),
                     Words(40), Lit("."), Blank(1), Words(120), Blank(1),
                     Lit("Newsletter"), Words(30), Blank(5)>>>>]

\* a very long body
DocBodyHuge == [EmptyDoc EXCEPT !.body = <<<<Words(9000)>>>>]

\* an article that discusses an error
DocErrorWord ==
    [EmptyDoc EXCEPT !.paras = <<<<Words(200), Lit(" "), Lit("Error"), Lit(" "),
                                   Words(100)>>>>,
                     !.body = <<<<Words(200), Lit(" "), Lit("Error"), Lit(" "),
                                  Words(100)>>>>]

Docs ==
    {EmptyDoc, DocLong, DocMid, DocHundred, DocNinetyNine, DocMainShort, DocBBC,
     DocHeadlineOnly, DocParas, DocBodyNoise, DocBodyHuge, DocErrorWord}

Page(kind, code, etext, redirect, doc) ==
    [kind |-> kind, code |-> code, etext |-> etext, redirect |-> redirect,
     doc |-> doc]

ExamplePage == HTTPS \o <<"E", "X", "a", "m", "p", "l", "e", ".", "c", "o", "m", "/">>

Pages ==
    { Page("exc", 0, S("Read timed out."), <<>>, EmptyDoc),
      Page("exc", 0, <<Lit("Max retries exceeded: "), Words(600)>>, <<>>, EmptyDoc),
      Page("status", 404, <<>>, <<>>, EmptyDoc),
      Page("status", 503, <<>>, <<>>, EmptyDoc),
      Page("parsefault", 200, S("No module named 'bs4'"), <<>>, EmptyDoc),
      Page("parsefault", 200, S("No module named 'bs4'"), ExamplePage, EmptyDoc),
      Page("parsefault", 503, S("No module named 'bs4'"), <<>>, EmptyDoc),
      Page("status", 500, <<>>, ExamplePage, DocLong),
      Page("status", 200, <<>>, ExamplePage, DocLong) }
    \cup { Page("status", 200, <<>>, <<>>, d) : d \in Docs }

Answer(kind, code, success, content) ==
    [kind |-> kind, code |-> code, success |-> success, content |-> content]

PrimaryContents ==
    { <<>>,
      <<Words(60)>>,
      <<Blank(80), Words(60), Blank(80)>>,
      <<Words(100)>>,
      <<Blank(1), Words(101)>>,
      <<Words(300), Lit("Example Domain"), Words(50)>>,
      <<Words(600)>>,
      <<Words(200), Lit(" "), Lit("Error"), Lit(" "), Words(100)>> }

Answers ==
    { Answer("exc", 0, FALSE, <<>>),
      Answer("fault", 200, FALSE, <<>>),
      Answer("ok", 500, FALSE, <<>>),
      Answer("ok", 402, TRUE, <<Words(600)>>),
      Answer("ok", 200, FALSE, <<Words(600)>>) }
    \cup { Answer("ok", 200, TRUE, c) : c \in PrimaryContents }

Ctx(kind, url) == [kind |-> kind, url |-> url]

\* the contexts of a call with argument url: the lookup fails, or the context
\* holds no URL, this URL, another one, or a value that is no string
Contexts(url) ==
    { Ctx("raise", <<>>), Ctx("none", <<>>), Ctx("nourl", <<>>), Ctx("url", url),
      Ctx("url", HTTPS \o HostPlain \o <<"/", "n">>), Ctx("url", NotAString) }

\* the arguments the extractor is called with
ToolUrls ==
    { <<>>,
      <<"n", "o", "t", "-", "a", "-", "u", "r", "l">>,
      FTP \o HostPlain \o <<"/", "n">>,
      HTTP \o <<"a">>,
      HTTP \o HostPlain,
      HTTPS \o HostBBC \o <<"/", "n">>,
      HTTPS \o HostExample }


(***************************************************************************)
(* The crew.  The language model behind the agents is not part of the      *)
(* repository: a task's output is any of the texts below, which follow the *)
(* expected output the task states.                                        *)
(***************************************************************************)
\* fact_check_crew, lines 630-647
CrewTasks == <<"extract", "identify", "research", "verify", "summarize">>

\* text_fact_check_crew, app.py lines 62-77
TextCrewTasks == <<"identify", "research", "verify", "summarize">>

\* lines 501 and 506: the two messages of identify_claims_task
InvalidContentMsg ==
    <<Lit("Error"), Lit(":"), Lit(" No "), Lit("verifiable claims"),
      Lit(" found due to invalid or inaccessible content.")>>

NoClaimsMsg == S("No verifiable factual claims were identified in the content.")

Ratings == {"Highly Credible", "Mostly Credible", "Somewhat Credible", "Not Credible"}

\* lines 593-596: the final label of a rating
LabelFor(rating) ==
    IF rating \in {"Highly Credible", "Mostly Credible"} THEN "**Real**"
    ELSE IF rating \in {"Not Credible", "Low Credibility"} THEN "**Fake**"
    ELSE "**Uncertain**"

RatingHeading == Lit("\n3. Overall Credibility Rating: ")

\* lines 600-608: the report of summarize_credibility_task
Report(rating) ==
    <<Lit("Based on the provided content from "), Words(20),
      Lit(":\n1. Overall Assessment: "), Words(100),
      Lit("\n2. Summary of Key Verified and Disputed Claims:\n"), Words(200),
      RatingHeading, Lit(rating), Words(50),
      Lit("\n4. Recommendations: "), Words(60), Lit("\n\n"),
      Lit(LabelFor(rating))>>

\* what a task may answer
StageOutputs(task) ==
    IF task = "identify"
    THEN {<<Lit("1. Claim: "), Words(80), Lit("\n2. Claim: "), Words(70)>>,
          InvalidContentMsg}
    ELSE IF task = "research" THEN {<<Lit("Research findings: "), Words(400)>>}
    ELSE IF task = "verify" THEN {<<Lit("Verification results: "), Words(300)>>}
    ELSE {Report(r) : r \in Ratings} \cup {InvalidContentMsg, NoClaimsMsg}

\* the texts of the exceptions a kickoff raises
FaultTexts == {S("Connection error.")}

\* what the extraction agent meets when it calls the tool in a run
Env(key, presp, page) == [key |-> key, presp |-> presp, page |-> page]

CrewEnvs ==
    { Env(TRUE, Answer("ok", 200, TRUE, <<Words(600)>>),
          Page("status", 404, <<>>, <<>>, EmptyDoc)),
      Env(TRUE, Answer("ok", 200, TRUE,
                       <<Words(200), Lit(" "), Lit("Error"), Lit(" "), Words(100)>>),
          Page("status", 404, <<>>, <<>>, EmptyDoc)),
      Env(TRUE, Answer("exc", 0, FALSE, <<>>),
          Page("status", 200, <<>>, <<>>, DocMid)),
      Env(TRUE, Answer("exc", 0, FALSE, <<>>),
          Page("exc", 0, <<Lit("Max retries exceeded: "), Words(600)>>, <<>>, EmptyDoc)),
      Env(FALSE, Answer("exc", 0, FALSE, <<>>),
          Page("status", 404, <<>>, <<>>, EmptyDoc)),
      Env(FALSE, Answer("exc", 0, FALSE, <<>>),
          Page("status", 200, <<>>, <<>>, DocLong)) }

\* the pages the scrape of line 717 meets
RecoveryPages ==
    { Page("status", 200, <<>>, <<>>, DocBBC),
      Page("status", 200, <<>>, <<>>, DocMid),
      Page("status", 404, <<>>, <<>>, EmptyDoc),
      Page("exc", 0, <<Lit("Max retries exceeded: "), Words(600)>>, <<>>, EmptyDoc) }

\* the texts handed to fact_check_text and to the text tab
Texts == {<<>>, <<Words(300)>>}

\* the shapes of what kickoff returns: a dict with the task outputs, a dict
\* whose tasks_output is empty, or an object that is no dict (str() of which
\* is the last task's output)
Shapes == {"dict", "dict_empty", "object"}

(***************************************************************************)
(* The state.                                                              *)
(***************************************************************************)
VARIABLES
    pc,            \* "idle", "crew" (inside kickoff) or "done" (returned)
    call,          \* the entry functions on the stack, outermost first
    url,           \* the argument of fact_check_url
    clock,         \* the year datetime.now() gave to fact_check_url
    text,          \* the argument of fact_check_text or the text of the tab
    tasks,         \* the tasks of the crew that runs
    task_outputs,  \* the outputs of the tasks finished in this kickoff
    stages,        \* every task run since the call began, as [by, task]
    net,           \* every network request since the call began
    kickoffs,      \* the kickoffs since the call began
    tool,          \* the last call of the extractor and what it returned
    content,       \* what _fallback_scrape returned at line 717, if called
    ret,           \* the string returned (or shown by the tab)
    where,         \* the return statement that returned it
    escaped,       \* an exception left the entry function
    query,         \* the argument of search_tool._run
    runs           \* concurrent invocations: the objects each one works on

vars ==
    <<pc, call, url, clock, text, tasks, task_outputs, stages, net, kickoffs, tool,
      content, ret, where, escaped, query, runs>>

\* the state of one invocation
seqvars ==
    <<pc, call, url, clock, text, tasks, task_outputs, stages, net, kickoffs, tool,
      content, ret, where, escaped, query>>

Runs == 1..MaxRuns

\* an invocation that is not under way
NoInvocation == [entry |-> "none", crew |-> <<>>, tasks |-> <<>>, at |-> 0]

NoRun ==
    [out |-> <<>>, raised |-> FALSE, etext |-> <<>>, net |-> <<>>, url |-> <<>>,
     fallbacks |-> 0]

NoTool ==
    [called |-> FALSE, arg |-> <<>>, ctx |-> Ctx("none", <<>>), key |-> FALSE,
     presp |-> Answer("exc", 0, FALSE, <<>>),
     page |-> Page("status", 404, <<>>, <<>>, EmptyDoc), res |-> NoRun]

\* a call of an extractor that keeps the URL of its last call and refuses
\* to scrape it once more
ToolCallOncePerUrl(arg, ctx, key, presp, page) ==
    [called |-> TRUE, arg |-> arg, ctx |-> ctx, key |-> key, presp |-> presp,
     page |-> page,
     res |-> IF tool.called /\ tool.arg = arg
             THEN EarlyError(EffectiveUrl(arg, ctx), " URL already scraped")
             ELSE Run(arg, ctx, key, presp, page)]

\* a call of firecrawl_tool._run and its result
ToolCall(arg, ctx, key, presp, page) ==
    [called |-> TRUE, arg |-> arg, ctx |-> ctx, key |-> key, presp |-> presp,
     page |-> page, res |-> Run(arg, ctx, key, presp, page)]

Init ==
    /\ pc = "idle"
    /\ call = <<>>
    /\ url = <<>>
    /\ clock = 0
    /\ text = <<>>
    /\ tasks = <<>>
    /\ task_outputs = <<>>
    /\ stages = <<>>
    /\ net = <<>>
    /\ kickoffs = 0
    /\ tool = NoTool
    /\ content = <<>>
    /\ ret = <<>>
    /\ where = "none"
    /\ escaped = FALSE
    /\ query = <<>>
    /\ runs = [r \in Runs |-> NoInvocation]

\* a call begins: nothing is left of the call before
Begin(entry, u, txt) ==
    /\ pc = "idle"
    /\ call' = <<entry>>
    /\ url' = u
    /\ text' = txt
    /\ task_outputs' = <<>>
    /\ stages' = <<>>
    /\ content' = <<>>

\* fact_check_url, lines 657-700: the validation, and the kickoff of
\* fact_check_crew when the URL passes
FactCheckUrl(u, current_year) ==
    /\ Begin("url", u, <<>>)
    /\ tool' = NoTool
    /\ escaped' = FALSE
    /\ clock' = current_year
    /\ net' = <<>>
    /\ ret' = ValidateUrl(u, current_year).ret
    /\ IF ValidateUrl(u, current_year).where # "pass"
       THEN /\ pc' = "done"
            /\ where' = ValidateUrl(u, current_year).where
            /\ tasks' = <<>>
            /\ kickoffs' = 0
       ELSE /\ pc' = "crew"
            /\ where' = "none"
            /\ tasks' = CrewTasks
            /\ kickoffs' = 1

\* fact_check_text, lines 756-765: the kickoff of fact_check_crew
FactCheckText(txt) ==
    /\ Begin("text", <<>>, txt)
    /\ tool' = NoTool
    /\ escaped' = FALSE
    /\ clock' = 0
    /\ net' = <<>>
    /\ pc' = "crew"
    /\ ret' = <<>>
    /\ where' = "none"
    /\ tasks' = CrewTasks
    /\ kickoffs' = 1

\* the text tab, app.py lines 50-82 and 94-95: the kickoff of a crew of the
\* four text tasks, or the message for an empty text
TextTab(txt) ==
    /\ Begin("ui", <<>>, txt)
    /\ tool' = NoTool
    /\ escaped' = FALSE
    /\ clock' = 0
    /\ net' = <<>>
    /\ IF txt = <<>>
       THEN /\ pc' = "done"
            /\ ret' = S("Please enter some text")
            /\ where' = "ui_empty"
            /\ tasks' = <<>>
            /\ kickoffs' = 0
       ELSE /\ pc' = "crew"
            /\ ret' = <<>>
            /\ where' = "none"
            /\ tasks' = TextCrewTasks
            /\ kickoffs' = 1

NextTask == tasks[Len(task_outputs) + 1]

Running == pc = "crew" /\ Len(task_outputs) < Len(tasks)

\* the entry function whose kickoff runs
Entry == call[Len(call)]

\* the entry functions without their except clauses: the exception goes on
HandleFaultReraise(entry, e) ==
    [ret |-> <<>>, where |-> "none", escaped |-> TRUE]

\* lines 752-754 and 774-775, app.py lines 91-93: what the except clause
\* around the kickoff makes of an exception with text e
HandleFault(entry, e) ==
    IF entry = "ui"
    THEN [ret |-> S("Error analyzing text: ") \o e, where |-> "ui_fault",
          escaped |-> FALSE]
    ELSE [ret |-> <<Lit("Error"), Lit(":"), Lit(" ")>> \o e,
          where |-> IF entry = "url" THEN "fault" ELSE "text_fault",
          escaped |-> FALSE]

\* the run ends with the exception e raised inside the try block
Raise(e) ==
    /\ pc' = "done"
    /\ ret' = HandleFault(Entry, e).ret
    /\ where' = HandleFault(Entry, e).where
    /\ escaped' = HandleFault(Entry, e).escaped

\* the URL the extraction agent hands to the tool: the URL of its inputs, the
\* placeholder URL when it has none
ExtractArg == IF Entry = "url" THEN url ELSE HTTPS \o HostExample

\* lines 486-492: the output of the extraction task, the tool's output bare
\* or after the line the task asks for
ExtractAnswer(announce, arg, out) ==
    IF announce
    THEN S("Using URL from context: ") \o Emb(arg) \o S("\n") \o out
    ELSE out

\* extract_content_task, lines 461-494: the agent calls the tool and answers
\* with what the tool returned
ExtractStage(env, announce) ==
    /\ Running
    /\ NextTask = "extract"
    /\ tool' = ToolCall(ExtractArg, Ctx("raise", <<>>), env.key, env.presp, env.page)
    /\ net' = net \o tool'.res.net
    /\ stages' = Append(stages, [by |-> Entry, task |-> "extract"])
    /\ IF tool'.res.raised
       THEN /\ Raise(tool'.res.etext)
            /\ UNCHANGED task_outputs
       ELSE /\ task_outputs' =
                   Append(task_outputs,
                          ExtractAnswer(announce, tool'.arg, tool'.res.out))
            /\ UNCHANGED <<pc, ret, where, escaped>>
    /\ UNCHANGED <<call, url, clock, text, tasks, kickoffs, content>>

\* the tasks without tools: the agent answers
LLMStage(out) ==
    /\ Running
    /\ NextTask # "extract"
    /\ out \in StageOutputs(NextTask)
    /\ stages' = Append(stages, [by |-> Entry, task |-> NextTask])
    /\ task_outputs' = Append(task_outputs, out)
    /\ UNCHANGED <<pc, call, url, clock, text, tasks, net, kickoffs, tool,
                   content, ret, where, escaped>>

\* the kickoff raises (the model's API fails, a task cannot be set up)
StageFault(e) ==
    /\ Running
    /\ Raise(e)
    /\ UNCHANGED <<call, url, clock, text, tasks, task_outputs, stages, net,
                   kickoffs, tool, content>>

Last(s) == s[Len(s)]

\* line 706: result["tasks_output"] of a dict
TasksOutput(shape, outs) == IF shape = "dict" THEN outs ELSE <<>>

\* line 707
ContentExtractionResult(outputs) ==
    IF Len(outputs) > 0 THEN outputs[1] ELSE S("No content extraction result")

\* line 725
FinalSummary(outputs) ==
    IF outputs # <<>> THEN Last(outputs) ELSE S("No results available")

\* line 723
ExtractFailedMsg(u, content_extraction_result) ==
    S("Failed to extract content from URL: ") \o Emb(u) \o S(". ")
    \o content_extraction_result

\* lines 738-743
BBCFormatted(u, final_summary) ==
    S("Based on the provided content from ") \o Emb(u)
    \o S(":\n1. Overall Assessment: ") \o final_summary
    \o <<Lit("\n2. Source: BBC News, a generally reliable mainstream news source."),
         Lit("\n3. Recommendations: Information from BBC News is generally reliable, but for complete verification, cross-reference with other reputable sources."),
         Lit("\n\n"), Lit("**Real**")>>

\* line 712: the extraction output is taken for an error
ExtractionErrorDetected(content_extraction_result) ==
    /\ Contains(content_extraction_result, S("Error"))
    /\ StrLen(content_extraction_result) < 500

\* line 718: the scraped content is taken for an article
RecoveryAccepted(scraped) == StrLen(scraped) > 500

\* lines 722-723, after the requests made before them
ExtractFailed(u, content_extraction_result, requests, scraped) ==
    [kind |-> "return", where |-> "extract_failed",
     ret |-> ExtractFailedMsg(u, content_extraction_result),
     net |-> requests, raised |-> FALSE, etext |-> <<>>, content |-> scraped]

\* lines 714-723 for a BBC URL, scrape being what _fallback_scrape gave:
\* kind "recover" is the call of fact_check_text at line 720
BBCRecovery(u, content_extraction_result, scrape) ==
    IF scrape.raised
    THEN [kind |-> "return", where |-> "none", ret |-> <<>>,
          net |-> scrape.net, raised |-> TRUE, etext |-> scrape.etext,
          content |-> <<>>]
    ELSE IF RecoveryAccepted(scrape.out)
    THEN [kind |-> "recover", where |-> "none", ret |-> scrape.out,
          net |-> scrape.net, raised |-> FALSE, etext |-> <<>>,
          content |-> scrape.out]
    ELSE ExtractFailed(u, content_extraction_result, scrape.net, scrape.out)

\* lines 725-749
SummaryReturn(u, final_summary) ==
    IF IsBBC(u) /\ ~Contains(Lower(final_summary), S("verifiable claims"))
    THEN [kind |-> "return", where |-> "bbc_formatted",
          ret |-> BBCFormatted(u, final_summary),
          net |-> <<>>, raised |-> FALSE, etext |-> <<>>, content |-> <<>>]
    ELSE [kind |-> "return", where |-> "summary", ret |-> final_summary,
          net |-> <<>>, raised |-> FALSE, etext |-> <<>>, content |-> <<>>]

\* lines 706-749 for the task outputs of a dict
DictReturn(u, outputs, page) ==
    IF ExtractionErrorDetected(ContentExtractionResult(outputs))
    THEN IF IsBBC(u)
         THEN BBCRecovery(u, ContentExtractionResult(outputs),
                          FallbackScrape(u, page))
         ELSE ExtractFailed(u, ContentExtractionResult(outputs), <<>>, <<>>)
    ELSE SummaryReturn(u, FinalSummary(outputs))

\* fact_check_url, lines 704-751, once the kickoff has returned a result of
\* the given shape with the outputs outs; page is what the scrape of line
\* 717 meets
UrlAfterKickoff(u, shape, outs, page) ==
    IF shape = "object"
    THEN [kind |-> "return", where |-> "raw", ret |-> Last(outs),
          net |-> <<>>, raised |-> FALSE, etext |-> <<>>, content |-> <<>>]
    ELSE DictReturn(u, TasksOutput(shape, outs), page)

Finished == pc = "crew" /\ Len(task_outputs) = Len(tasks)

\* what fact_check_url does with the outcome r of lines 704-751
UrlOutcome(r) ==
    /\ net' = net \o r.net
    /\ content' = r.content
    /\ IF r.raised
       THEN /\ Raise(r.etext)
            /\ UNCHANGED <<call, text, tasks, task_outputs, kickoffs>>
       ELSE IF r.kind = "recover"
       THEN /\ call' = <<"url", "text">>
            /\ text' = r.ret
            /\ tasks' = CrewTasks
            /\ task_outputs' = <<>>
            /\ kickoffs' = kickoffs + 1
            /\ UNCHANGED <<pc, ret, where, escaped>>
       ELSE /\ pc' = "done"
            /\ ret' = r.ret
            /\ where' = r.where
            /\ UNCHANGED <<call, text, tasks, task_outputs, kickoffs, escaped>>

\* the kickoff of fact_check_url returns
UrlReturn(shape, page) ==
    /\ Finished
    /\ Entry = "url"
    /\ UrlOutcome(UrlAfterKickoff(url, shape, task_outputs, page))
    /\ UNCHANGED <<url, clock, stages, tool>>

\* fact_check_text, lines 767-772, and the text tab, app.py lines 84-89, once
\* the kickoff has returned: result["tasks_output"][-1] of an empty list
\* raises IndexError
TextAfterKickoff(entry, shape, outs) ==
    IF shape = "object"
    THEN [ret |-> Last(outs), raised |-> FALSE,
          where |-> IF entry = "ui" THEN "ui_raw" ELSE "text_raw"]
    ELSE IF TasksOutput(shape, outs) = <<>>
    THEN [ret |-> S("list index out of range"), raised |-> TRUE, where |-> "none"]
    ELSE [ret |-> Last(TasksOutput(shape, outs)), raised |-> FALSE,
          where |-> IF entry = "ui" THEN "ui_summary" ELSE "text_summary"]

\* what the text entry does with the outcome r of its lines after the kickoff
TextOutcome(r) ==
    IF r.raised
    THEN Raise(r.ret)
    ELSE /\ pc' = "done"
         /\ ret' = r.ret
         /\ where' = r.where
         /\ UNCHANGED escaped

\* the kickoff of fact_check_text or of the text tab returns; the value of
\* a fact_check_text called at line 720 is what fact_check_url returns
TextReturn(shape) ==
    /\ Finished
    /\ Entry # "url"
    /\ TextOutcome(TextAfterKickoff(Entry, shape, task_outputs))
    /\ UNCHANGED <<call, url, clock, text, tasks, task_outputs, stages, net,
                   kickoffs, tool, content>>

\* firecrawl_tool._run called on its own
ToolRun(arg, ctx, key, presp, page) ==
    /\ Begin("tool", <<>>, <<>>)
    /\ tool' = ToolCall(arg, ctx, key, presp, page)
    /\ net' = tool'.res.net
    /\ ret' = tool'.res.out
    /\ escaped' = tool'.res.raised
    /\ pc' = "done"
    /\ where' = "tool"
    /\ clock' = 0
    /\ tasks' = <<>>
    /\ kickoffs' = 0

\* firecrawl_tool._run called once more with the argument of the call that
\* has just returned, in the same context, with the same environment and
\* the same answers of the network
ToolAgain ==
    /\ pc = "done"
    /\ where = "tool"
    /\ tool' = ToolCall(tool.arg, tool.ctx, tool.key, tool.presp, tool.page)
    /\ net' = net \o tool'.res.net
    /\ ret' = tool'.res.out
    /\ escaped' = tool'.res.raised
    /\ where' = "tool_again"
    /\ UNCHANGED <<pc, call, url, clock, text, tasks, task_outputs, stages,
                   kickoffs, content>>

(***************************************************************************)
(* The search tool, lines 33-73.  A query is a sequence of characters.     *)
(***************************************************************************)
\* query.lower()
QueryLower(q) == [i \in 1..Len(q) |-> LowerText(q[i])]

\* line 53
NewsTerms ==
    {<<"b", "b", "c">>,
     <<"r", "e", "u", "t", "e", "r", "s">>,
     <<"n", "e", "w", "s">>,
     <<"r", "e", "p", "o", "r", "t", "e", "d">>}

\* line 53
NewsFlavoured(q) == \E term \in NewsTerms : Contains(QueryLower(q), term)

\* the month names of the pattern of line 55
MonthNames ==
    {<<"j", "a", "n", "u", "a", "r", "y">>,
     <<"f", "e", "b", "r", "u", "a", "r", "y">>,
     <<"m", "a", "r", "c", "h">>,
     <<"a", "p", "r", "i", "l">>,
     <<"m", "a", "y">>,
     <<"j", "u", "n", "e">>,
     <<"j", "u", "l", "y">>,
     <<"a", "u", "g", "u", "s", "t">>,
     <<"s", "e", "p", "t", "e", "m", "b", "e", "r">>,
     <<"o", "c", "t", "o", "b", "e", "r">>,
     <<"n", "o", "v", "e", "m", "b", "e", "r">>,
     <<"d", "e", "c", "e", "m", "b", "e", "r">>}

\* the characters \w matches in a lower-cased query
WordChars ==
    {"a", "b", "c", "d", "e", "f", "g", "h", "i", "j", "k", "l", "m", "n",
     "o", "p", "q", "r", "s", "t", "u", "v", "w", "x", "y", "z", "_"}
    \cup {Digits[k] : k \in 1..10}

\* \b before position i and after position j of s, where s[i] and s[j] are
\* word characters
Bounded(s, i, j) ==
    /\ i = 1 \/ s[i - 1] \notin WordChars
    /\ j = Len(s) \/ s[j + 1] \notin WordChars

\* 202\d at position i of s
YearAt(s, i) ==
    /\ i + 3 <= Len(s)
    /\ SubSeq(s, i, i + 2) = <<"2", "0", "2">>
    /\ IsDigit(s[i + 3])

\* line 55: re.search(r'\b(202\d|january|...|december)\b', s) finds a match
DateSearch(s) ==
    \E i \in 1..Len(s) :
        \/ YearAt(s, i) /\ Bounded(s, i, i + 3)
        \/ \E m \in MonthNames :
              /\ i + Len(m) - 1 <= Len(s)
              /\ SubSeq(s, i, i + Len(m) - 1) = m
              /\ Bounded(s, i, i + Len(m) - 1)

\* line 55 with the pattern searched without its \b anchors
DateSearchUnanchored(s) ==
    \E i \in 1..Len(s) :
        \/ YearAt(s, i)
        \/ \E m \in MonthNames :
              /\ i + Len(m) - 1 <= Len(s)
              /\ SubSeq(s, i, i + Len(m) - 1) = m

Recent == <<"r", "e", "c", "e", "n", "t">>

\* line 56 with the date searched as a substring
NeedsRecencyUnanchored(q) ==
    ~DateSearchUnanchored(QueryLower(q)) /\ ~Contains(QueryLower(q), Recent)

\* line 56
NeedsRecency(q) ==
    ~DateSearch(QueryLower(q)) /\ ~Contains(QueryLower(q), Recent)

\* line 58
RecentNews == <<" ", "r", "e", "c", "e", "n", "t", " ", "n", "e", "w", "s">>

\* line 63
VerifyLanguage(q) ==
    \/ Contains(QueryLower(q), <<"v", "e", "r", "i", "f", "y">>)
    \/ Contains(QueryLower(q), <<"f", "a", "c", "t", " ", "c", "h", "e", "c", "k">>)

\* line 66
VerifiedBy ==
    <<" ", "c", "o", "n", "f", "i", "r", "m", "e", "d", " ", "O", "R", " ", "v", "e", "r", "i", "f", "i", "e", "d", " ", "b", "y", " ", "m", "u", "l", "t", "i", "p", "l", "e", " ", "s", "o", "u", "r", "c", "e", "s">>

SearchReq(q) == [op |-> "search", query |-> q]

\* self.search_tool.run(q) answering a: the results, or the exception it raises
OneSearch(q, a) ==
    [net |-> <<SearchReq(q)>>, raised |-> a.raised, etext |-> a.etext,
     out |-> a.out]

\* lines 65-70
TwoSearches(q, first, second) ==
    IF first.raised THEN OneSearch(q, first)
    ELSE [net |-> <<SearchReq(q), SearchReq(q \o VerifiedBy)>>,
          raised |-> second.raised, etext |-> second.etext,
          out |-> IF second.raised THEN <<>>
                  ELSE S("Regular search results:\n") \o first.out
                       \o S("\n\nVerification search results:\n")
                       \o second.out]

\* SearchTool._run, lines 42-73: [net, raised, etext, out]
SearchResult(q, first, second) ==
    IF NewsFlavoured(q) /\ NeedsRecency(q)
    THEN OneSearch(q \o RecentNews, first)
    ELSE IF VerifyLanguage(q)
    THEN TwoSearches(q, first, second)
    ELSE OneSearch(q, first)

SearchAnswer(raised, etext, out) == [raised |-> raised, etext |-> etext, out |-> out]

\* what DuckDuckGo answers to one search
SearchAnswers ==
    { SearchAnswer(FALSE, <<>>, <<Words(300)>>),
      SearchAnswer(FALSE, <<>>, S("No good DuckDuckGo Search Result was found")),
      SearchAnswer(TRUE, S("202 Ratelimit"), <<>>) }

Queries ==
    { <<>>,
      <<"m", "o", "o", "n", " ", "l", "a", "n", "d", "i", "n", "g">>,
      <<"m", "a", "y", "o", "r", " ", "w", "i", "n", "s">>,
      <<"b", "b", "c", " ", "m", "a", "y", "o", "r">>,
      <<"b", "b", "c", " ", "m", "a", "y", " ", "5">>,
      <<"B", "B", "C", " ", "f", "l", "o", "o", "d">>,
      <<"b", "b", "c", " ", "i", "n", " ", "M", "a", "y", ".">>,
      <<"n", "e", "w", "s", " ", "2", "0", "2", "4">>,
      <<"n", "e", "w", "s", " ", "2", "0", "2", "4", "5">>,
      <<"r", "e", "p", "o", "r", "t", "e", "d", "_", "m", "a", "y">>,
      <<"r", "e", "u", "t", "e", "r", "s", " ", "r", "e", "c", "e", "n", "t", "l", "y">>,
      <<"v", "e", "r", "i", "f", "y", " ", "m", "o", "o", "n">>,
      <<"F", "a", "c", "t", " ", "C", "h", "e", "c", "k", " ", "m", "o", "o", "n">>,
      <<"v", "e", "r", "i", "f", "y", " ", "b", "b", "c">>,
      <<"v", "e", "r", "i", "f", "y", " ", "n", "e", "w", "s", " ", "m", "a", "r", "c", "h">> }

\* search_tool._run called on its own: the exception of a search leaves it
SearchRun(q, first, second) ==
    /\ Begin("search", <<>>, <<>>)
    /\ query' = q
    /\ net' = SearchResult(q, first, second).net
    /\ ret' = SearchResult(q, first, second).out
    /\ escaped' = SearchResult(q, first, second).raised
    /\ tool' = NoTool
    /\ pc' = "done"
    /\ where' = "search"
    /\ clock' = 0
    /\ tasks' = <<>>
    /\ kickoffs' = 0

\* the caller has its answer; the next call starts afresh
Return ==
    /\ pc = "done"
    /\ pc' = "idle"
    /\ call' = <<>>
    /\ url' = <<>>
    /\ clock' = 0
    /\ text' = <<>>
    /\ tasks' = <<>>
    /\ task_outputs' = <<>>
    /\ stages' = <<>>
    /\ net' = <<>>
    /\ kickoffs' = 0
    /\ tool' = NoTool
    /\ content' = <<>>
    /\ ret' = <<>>
    /\ where' = "none"
    /\ escaped' = FALSE
    /\ query' = <<>>

\* the guards stand before the quantifiers so that the inputs are drawn only
\* where the action can be taken
Next ==
    \/ pc = "idle" /\ UNCHANGED <<runs, query>>
                   /\ \E u \in Urls, y \in ClockYears : FactCheckUrl(u, y)
    \/ pc = "idle" /\ UNCHANGED <<runs, query>> /\ \E txt \in Texts : FactCheckText(txt)
    \/ pc = "idle" /\ UNCHANGED <<runs, query>> /\ \E txt \in Texts : TextTab(txt)
    \/ Running /\ UNCHANGED <<runs, query>>
               /\ \E env \in CrewEnvs, announce \in BOOLEAN :
                     ExtractStage(env, announce)
    \/ Running /\ UNCHANGED <<runs, query>> /\ \E out \in StageOutputs(NextTask) : LLMStage(out)
    \/ Running /\ UNCHANGED <<runs, query>> /\ \E e \in FaultTexts : StageFault(e)
    \/ Finished /\ UNCHANGED <<runs, query>>
                /\ \E shape \in Shapes, page \in RecoveryPages :
                      UrlReturn(shape, page)
    \/ Finished /\ UNCHANGED <<runs, query>> /\ \E shape \in Shapes : TextReturn(shape)
    \/ pc = "idle" /\ UNCHANGED <<runs, query>>
                   /\ \E arg \in ToolUrls :
                         \E ctx \in Contexts(arg), key \in BOOLEAN,
                            presp \in Answers, page \in Pages :
                               ToolRun(arg, ctx, key, presp, page)
    \/ pc = "idle" /\ UNCHANGED runs
                   /\ \E q \in Queries, first \in SearchAnswers,
                         second \in SearchAnswers :
                            SearchRun(q, first, second)
    \/ ToolAgain /\ UNCHANGED <<runs, query>>
    \/ Return /\ UNCHANGED runs

Spec == Init /\ [][Next]_vars

(***************************************************************************)
(* Concurrent invocations.  The crew fact_check_crew and the five task     *)
(* objects are created once, when fact_check_bot is imported (lines        *)
(* 461-647); every call of fact_check_url and fact_check_text kicks off    *)
(* that crew (lines 700, 765), and every run of the text tab builds a crew *)
(* of its own around four of the same task objects (app.py lines 55-77).   *)
(* An invocation is [entry, crew, tasks, at]: the objects it works on and  *)
(* the number of tasks its kickoff has executed.  Streamlit serves each    *)
(* session from a thread of its own in one process, so the steps of        *)
(* several invocations interleave.                                         *)
(***************************************************************************)
\* the crew object an invocation kicks off
CrewOf(r, entry) ==
    IF entry = "ui" THEN <<"text_fact_check_crew", r>> ELSE <<"fact_check_crew">>

\* the task objects of that crew, by the names of the module-level objects
TasksOf(entry) == IF entry = "ui" THEN TextCrewTasks ELSE CrewTasks

Active(r) == runs[r].entry # "none"

\* lines 700 and 765, app.py line 82: invocation r kicks off its crew
ConcKickoff(r, entry) ==
    /\ ~Active(r)
    /\ runs' = [runs EXCEPT ![r] = [entry |-> entry, crew |-> CrewOf(r, entry),
                                    tasks |-> TasksOf(entry), at |-> 0]]
    /\ UNCHANGED seqvars

\* the crew of invocation r executes its next task object
ConcStage(r) ==
    /\ Active(r)
    /\ runs[r].at < Len(runs[r].tasks)
    /\ runs' = [runs EXCEPT ![r].at = @ + 1]
    /\ UNCHANGED seqvars

\* the kickoff of invocation r returns and the invocation ends
ConcReturn(r) ==
    /\ Active(r)
    /\ runs[r].at = Len(runs[r].tasks)
    /\ runs' = [runs EXCEPT ![r] = NoInvocation]
    /\ UNCHANGED seqvars

ConcNext ==
    \/ \E r \in Runs, entry \in {"url", "text", "ui"} : ConcKickoff(r, entry)
    \/ \E r \in Runs : ConcStage(r)
    \/ \E r \in Runs : ConcReturn(r)

ConcSpec == Init /\ [][ConcNext]_vars

(***************************************************************************)
(* The properties.                                                         *)
(***************************************************************************)
\* a call of fact_check_url is under way or has returned
UrlCall == call # <<>> /\ call[1] = "url"

\* a call of fact_check_text from outside is under way or has returned
TextCall == call # <<>> /\ call[1] = "text"

ErrorColon == <<Lit("Error"), Lit(":")>>

\* C1: for every URL string that does not match the pattern (the empty string
\* and strings without http/https scheme among them), fact_check_url returns
\* a message beginning "Error: Invalid URL format", and it returns it before
\* the crew is kicked off and before any network request is made: no
\* kickoff, no stage, no tool call and no request belongs to such a call.
C1_InvalidUrlRejected ==
    (UrlCall /\ ~UrlPatternMatch(url)) =>
        /\ pc = "done"
        /\ where = "invalid_url"
        /\ StartsWith(ret, ErrorColon \o S(" Invalid URL format"))
        /\ ~escaped
        /\ kickoffs = 0
        /\ stages = <<>>
        /\ net = <<>>
        /\ ~tool.called

\* fact_check_url("not-a-url") has returned the message
C1_Witness ==
    /\ pc = "done"
    /\ UrlCall
    /\ url = <<"n", "o", "t", "-", "a", "-", "u", "r", "l">>
    /\ ret = InvalidUrlMsg
    /\ net = <<>>

\* the places of u, after its scheme, where a path segment of four digits
\* begins: a slash, four digits, then a slash or the end of the URL
YearSegments(u) ==
    { i \in (SchemeLen(u) + 1)..(Len(u) - 4) :
        /\ u[i] = "/"
        /\ \A k \in 1..4 : IsDigit(u[i + k])
        /\ (i + 4 = Len(u) \/ u[i + 5] = "/") }

\* u holds a four-digit path segment greater than the year
HasFutureSegment(u, year) ==
    \E i \in YearSegments(u) : IntOf(SubSeq(u, i + 1, i + 4)) > year

\* C2: for every well-formed URL with a four-digit path segment greater than
\* the current year, whatever the position of the segment (the first
\* four-digit segment or a later one, followed by a slash or at the end of
\* the URL), fact_check_url returns the future-date error and never starts
\* the pipeline.
C2_FutureYearRejected ==
    (UrlCall /\ UrlPatternMatch(url) /\ HasFutureSegment(url, clock)) =>
        /\ pc = "done"
        /\ where = "future_date"
        /\ StartsWith(ret, ErrorColon \o S(" URL contains a future date ("))
        /\ kickoffs = 0
        /\ stages = <<>>

\* a URL with a future year in its path has gone through the whole pipeline
\* and fact_check_url has returned the summary
C2_Witness ==
    /\ pc = "done"
    /\ UrlCall
    /\ UrlPatternMatch(url)
    /\ HasFutureSegment(url, clock)
    /\ where = "summary"
    /\ Len(stages) = Len(CrewTasks)

\* the texts of the faults of a run: the kickoff raises, or the list of task
\* outputs is empty where its last element is taken
RunFaults == FaultTexts \cup {S("list index out of range")}

\* C3: fact_check_url and fact_check_text always end by returning a string:
\* whatever a stage does, no exception escapes the call, and a fault raised
\* during the run is returned as a message that carries the fault's text.
C3_AlwaysReturnsString ==
    (UrlCall \/ TextCall) =>
        /\ ~escaped
        /\ ~tool.res.raised
        /\ pc = "done" /\ where \in {"fault", "text_fault"} =>
              \E e \in RunFaults : ret = ErrorColon \o S(" ") \o e
        /\ pc = "done" => where # "none"

\* the run entered at line 720 ended without a task output: the IndexError
\* of line 770 was returned as a message by fact_check_url
C3_Witness ==
    /\ pc = "done"
    /\ ~escaped
    /\ call = <<"url", "text">>
    /\ where = "text_fault"
    /\ ret = ErrorColon \o S(" ") \o S("list index out of range")

\* the return statements of the failure outcomes
FailureReturns ==
    {"invalid_url", "future_date", "extract_failed", "fault", "text_fault"}

\* C4: every failure outcome returned by fact_check_url or fact_check_text
\* (invalid URL, future date, extraction failure, unhandled stage fault) is
\* a string that begins with the exact prefix "Error:".
C4_FailuresBeginWithErrorColon ==
    ((UrlCall \/ TextCall) /\ pc = "done" /\ where \in FailureReturns) =>
        StartsWith(ret, ErrorColon)

\* the extraction failed for a URL and the message returned begins otherwise
C4_Witness ==
    /\ pc = "done"
    /\ UrlCall
    /\ where = "extract_failed"
    /\ StartsWith(ret, S("Failed to extract content from URL: "))
    /\ ~StartsWith(ret, ErrorColon)

\* the primary path of a tool call gave no content: no API key, or an answer
\* that is not used
PrimaryFailed(c) == ~c.key \/ ~PrimaryAccepted(c.presp)

\* the page the fallback of a tool call met gives no article: the request or
\* the parser raised, the status is not 200, the page is example.com, or the
\* text found is shorter than 100 characters
PageFailed(c) ==
    \/ c.page.kind # "status"
    \/ c.page.code # 200
    \/ Contains(LowerUrl(ResponseUrl(c.res.url, c.page)), HostExample)
    \/ StrLen(ArticleText(ContentBlocks(c.res.url, c.page.doc))) < 100

\* C5: the extractor never raises: every network error, HTTP error status,
\* parse error or missing API key is converted into a returned string, and
\* when both the primary and the fallback path fail the returned string is
\* an error diagnostic beginning with "Error".
C5_ExtractorNeverRaises ==
    tool.called =>
        /\ ~tool.res.raised
        /\ ~escaped
        /\ (PrimaryFailed(tool) /\ PageFailed(tool)) =>
              StartsWith(tool.res.out, S("Error"))

\* the primary request raised and so did the page fetch: the extractor
\* returned the diagnostic of the fetch
C5_Witness ==
    /\ pc = "done"
    /\ where = "tool"
    /\ tool.called
    /\ tool.key
    /\ tool.presp.kind = "exc"
    /\ tool.page.kind = "exc"
    /\ tool.res.fallbacks = 1
    /\ StartsWith(ret, <<Lit("Error"), Lit(" scraping URL ")>>)
    /\ Contains(ret, tool.page.etext)

\* the tool call came past the checks of its input (lines 116-131)
InputPassed(c) ==
    c.res.url # <<>> /\ (StartsWith(c.res.url, HTTP) \/ StartsWith(c.res.url, HTTPS))

\* the primary failures of a tool call: no API key, a request that raised,
\* an answer that cannot be read, a status other than 200, a success flag
\* that is not true, or a content that is empty, of stripped length at most
\* 100, or that holds the placeholder marker
PrimaryFailure(c) ==
    \/ ~c.key
    \/ c.presp.kind # "ok"
    \/ c.presp.code # 200
    \/ ~c.presp.success
    \/ c.presp.content = <<>>
    \/ StrLen(Strip(c.presp.content)) <= 100
    \/ Contains(c.presp.content, S("Example Domain"))

IsGet(r) == r.op = "get"

\* C6: when the primary API answers 200 with success = true but its content
\* is empty, of stripped length <= 100 or holds "Example Domain", and on
\* every other primary failure (missing API key, non-200 status, success
\* flag false, request exception), _run invokes _fallback_scrape exactly
\* once, on the same URL, and returns exactly what the fallback returned.
C6_FallbackExactlyOnce ==
    (tool.called /\ InputPassed(tool) /\ PrimaryFailure(tool)) =>
        /\ tool.res.fallbacks = 1
        /\ SelectSeq(tool.res.net, IsGet) = <<[op |-> "get", url |-> tool.res.url]>>
        /\ tool.res.out = FallbackScrape(tool.res.url, tool.page).out

\* the primary API answered 200 and success with a content of exactly 100
\* characters: the page was fetched once and its article text returned
C6_Witness ==
    /\ pc = "done"
    /\ where = "tool"
    /\ tool.key
    /\ tool.presp = Answer("ok", 200, TRUE, <<Words(100)>>)
    /\ tool.res.fallbacks = 1
    /\ tool.res.net = <<[op |-> "post", url |-> tool.res.url],
                        [op |-> "get", url |-> tool.res.url]>>
    /\ ret = tool.res.out
    /\ StrLen(ret) >= 100
    /\ ~StartsWith(ret, S("Error"))

\* the tasks run by fact_check_text in a run
TextStages == SelectSeq(stages, LAMBDA s : s.by = "text")

\* C7: a fact-check started from raw text begins at the claim
\* identification: the content extraction (its task and its scraping tool)
\* is never part of the stages run for a text input, and a finished run of
\* fact_check_text has run exactly identify, research, verify, summarize.
C7_TextBeginsAtIdentifying ==
    /\ \A i \in 1..Len(TextStages) : TextStages[i].task # "extract"
    /\ (call # <<>> /\ Entry = "text") => ~tool.called
    /\ (pc = "done" /\ TextCall /\ where \in {"text_summary", "text_raw"}) =>
          [i \in 1..Len(TextStages) |-> TextStages[i].task] = TextCrewTasks

\* fact_check_text has returned a summary after five stages, the first of
\* them the extraction with its tool call
C7_Witness ==
    /\ pc = "done"
    /\ TextCall
    /\ where = "text_summary"
    /\ [i \in 1..Len(stages) |-> stages[i].task] = CrewTasks
    /\ stages[1] = [by |-> "text", task |-> "extract"]
    /\ tool.called
    /\ kickoffs = 1

\* the scrape of line 717 gave an article text: no error, and at least 100
\* characters
ScrapeSucceeded ==
    content # <<>> /\ ~StartsWith(content, S("Error")) /\ StrLen(content) >= 100

\* C8: for a bbc.com / bbc.co.uk URL whose extraction stage reports an
\* error, whenever the fallback scrape of the same URL succeeds (an article
\* text of at least 100 characters), fact_check_url re-enters the pipeline
\* with that text and returns the resulting report, not an extraction
\* failure message.
C8_RecoveryWheneverScrapeSucceeds ==
    (UrlCall /\ IsBBC(url) /\ ScrapeSucceeded) =>
        /\ call = <<"url", "text">>
        /\ text = content
        /\ kickoffs = 2
        /\ where # "extract_failed"

\* the scrape of a BBC URL gave an article of 300 characters and
\* fact_check_url returned the extraction failure
C8_Witness ==
    /\ pc = "done"
    /\ call = <<"url">>
    /\ IsBBC(url)
    /\ ScrapeSucceeded
    /\ StrLen(content) = 300
    /\ where = "extract_failed"
    /\ kickoffs = 1

\* the extraction stage of the run ended with an error of the extractor
ExtractionWasError == tool.called /\ StartsWith(tool.res.out, S("Error"))

\* C9: for a URL that is not of a high-trust domain, whenever the extraction
\* stage's result is an error, a fact_check_url whose stages all ran ends in
\* the failed outcome with the extraction's error detail verbatim in its
\* message, whatever the length of the error text and the shape of the
\* crew's result; it never returns the summarizer's report.
C9_ExtractionErrorFails ==
    (pc = "done" /\ UrlCall /\ ~IsBBC(url) /\ ExtractionWasError /\ where # "fault") =>
        /\ where = "extract_failed"
        /\ Contains(ret, tool.res.out)

\* the extractor's error was 500 characters or more and fact_check_url
\* returned the summarizer's report
C9_Witness ==
    /\ pc = "done"
    /\ UrlCall
    /\ ~IsBBC(url)
    /\ ExtractionWasError
    /\ StrLen(tool.res.out) >= 500
    /\ where = "summary"
    /\ \E r \in Ratings : ret = Report(r)

\* the returns of completed reports
ReportReturns == {"summary", "bbc_formatted", "raw", "text_summary", "text_raw"}

\* C10: in every completed report returned by fact_check_url or
\* fact_check_text the final label is the label of the overall rating:
\* Highly/Mostly Credible gives Real, Not Credible gives Fake, every other
\* rating gives Uncertain, for trusted and untrusted source URLs alike.
C10_LabelFollowsRating ==
    ((UrlCall \/ TextCall) /\ pc = "done" /\ where \in ReportReturns) =>
        \A r \in Ratings :
            Contains(ret, <<RatingHeading, Lit(r)>>) =>
                Last(ret) = Lit(LabelFor(r))

\* the report of a BBC URL is rated Not Credible and ends with Real
C10_Witness ==
    /\ pc = "done"
    /\ UrlCall
    /\ IsBBC(url)
    /\ where = "bbc_formatted"
    /\ Contains(ret, <<RatingHeading, Lit("Not Credible")>>)
    /\ Last(ret) = Lit("**Real**")


\* the messages that tell the caller the input was not usable: an error, or
\* one of the two answers of the claim identification for content without
\* claims
IsErrorOrInvalidInput(s) ==
    StartsWith(s, S("Error")) \/ s = InvalidContentMsg \/ s = NoClaimsMsg

\* C11: fact_check_text called with the empty string returns an error or
\* invalid-input message, never a completed credibility report and never
\* an exception, whatever the stages answer for the empty content.
C11_EmptyTextRejected ==
    (pc = "done" /\ call = <<"text">> /\ text = <<>>) =>
        /\ ~escaped
        /\ IsErrorOrInvalidInput(ret)
        /\ \A r \in Ratings : ret # Report(r)

\* fact_check_text("") ran its crew and returned a rated report
C11_Witness ==
    /\ pc = "done"
    /\ call = <<"text">>
    /\ text = <<>>
    /\ kickoffs = 1
    /\ Len(stages) = Len(CrewTasks)
    /\ where = "text_summary"
    /\ ret = Report("Mostly Credible")


\* the task objects of an invocation
TaskObjects(r) == {runs[r].tasks[i] : i \in 1..Len(runs[r].tasks)}

\* C12: concurrent invocations share no mutable state: the crew and the
\* task objects of an invocation under way belong to that invocation only,
\* so that no other invocation can read or overwrite what its stages keep
\* in them.
C12_NoSharedObjects ==
    \A r1, r2 \in Runs :
        (r1 # r2 /\ Active(r1) /\ Active(r2)) =>
            /\ runs[r1].crew # runs[r2].crew
            /\ TaskObjects(r1) \cap TaskObjects(r2) = {}

\* a fact_check_url and a text-tab run are under way together, each past
\* its claim identification, which both ran on identify_claims_task
C12_Witness ==
    \E r1, r2 \in Runs :
        /\ r1 # r2
        /\ runs[r1].entry = "url"
        /\ runs[r2].entry = "ui"
        /\ runs[r1].crew # runs[r2].crew
        /\ runs[r1].at = 2
        /\ runs[r2].at = 1
        /\ runs[r1].tasks[2] = runs[r2].tasks[1]


\* C13: the extractor itself rejects every URL that does not match the
\* pattern ^https?://[^\s/$.?#].[^\s]*$ before any network call: for such
\* an argument _run returns an error string and neither posts to the
\* primary API nor fetches the page.
C13_ExtractorRejectsMalformed ==
    (pc = "done" /\ where = "tool" /\ ~UrlPatternMatch(tool.arg)) =>
        /\ StartsWith(ret, ErrorColon)
        /\ tool.res.fallbacks = 0
        /\ net = <<>>

\* _run("http://a") without task context and without API key fetched the
\* page
C13_Witness ==
    /\ pc = "done"
    /\ where = "tool"
    /\ tool.arg = HTTP \o <<"a">>
    /\ ~UrlPatternMatch(tool.arg)
    /\ tool.ctx.kind = "none"
    /\ ~tool.key
    /\ net = <<[op |-> "get", url |-> tool.arg]>>


\* the fallback of a tool call parsed the page it fetched
PageParsed(c) ==
    /\ c.res.fallbacks = 1
    /\ c.page.kind = "status"
    /\ c.page.code = 200
    /\ ~Contains(LowerUrl(ResponseUrl(c.res.url, c.page)), HostExample)

\* C14: every string the extractor returns is an error diagnostic beginning
\* with "Error" or a text of at least 100 characters: the fallback returns
\* an error whenever the joined text is shorter than 100 characters, and
\* the primary path returns its content only when its stripped length
\* exceeds 100.
C14_ErrorOrHundredChars ==
    tool.called =>
        /\ StartsWith(tool.res.out, S("Error")) \/ StrLen(tool.res.out) >= 100
        /\ (PageParsed(tool)
            /\ StrLen(ArticleText(ContentBlocks(tool.res.url, tool.page.doc))) < 100)
              => StartsWith(tool.res.out, S("Error"))
        /\ (InputPassed(tool) /\ tool.res.fallbacks = 0) =>
              /\ tool.res.out = tool.presp.content
              /\ StrLen(Strip(tool.presp.content)) > 100

\* a page with one paragraph of 99 characters: the fallback returned the
\* error, not the paragraph
C14_Witness ==
    /\ pc = "done"
    /\ where = "tool"
    /\ PageParsed(tool)
    /\ tool.page.doc = DocNinetyNine
    /\ StrLen(ArticleText(ContentBlocks(tool.res.url, tool.page.doc))) = 99
    /\ StartsWith(ret, ErrorColon \o S(" Could not extract meaningful content from "))


\* the fallback of a tool call got an answer to its page fetch
PageAnswered(c) == c.res.fallbacks = 1 /\ c.page.kind # "exc"

\* C15: in the fallback scraper, when the page fetch returns 200 and the URL
\* reached after redirects contains "example.com", the result is the
\* redirect error and the page is neither parsed nor searched by the tiers
\* (the result is the same whatever the page holds and whether or not
\* parsing it would fail); a fetch with any other status yields the status
\* error.
C15_PlaceholderAndStatusErrors ==
    (tool.called /\ PageAnswered(tool)) =>
        /\ (tool.page.code = 200
            /\ Contains(LowerUrl(ResponseUrl(tool.res.url, tool.page)), HostExample))
              => tool.res.out = RedirectError(tool.res.url)
        /\ tool.page.code # 200 => tool.res.out = StatusError(tool.page.code)

\* the fetch was redirected to https://EXample.com/ with a page whose
\* parsing would have raised: the redirect error came back
C15_Witness ==
    /\ pc = "done"
    /\ where = "tool"
    /\ PageAnswered(tool)
    /\ tool.page.kind = "parsefault"
    /\ tool.page.code = 200
    /\ tool.page.redirect = ExamplePage
    /\ ~Contains(tool.res.url, HostExample)
    /\ ret = RedirectError(tool.res.url)


\* the fallback of a tool call parsed a page of a site other than the BBC
\* whose content container holds no paragraph of more than 30 characters,
\* while the page has paragraphs of more than 50 characters elsewhere
ContainerYieldsNothing(c) ==
    /\ PageParsed(c)
    /\ ~IsBBC(c.res.url)
    /\ c.page.doc.main # <<>>
    /\ SelectMap(c.page.doc.main[1], MainKeep, StripText) = <<>>
    /\ SelectMap(c.page.doc.paras, AllParasKeep, StripText) # <<>>

\* C16: the tiers of the fallback scraper form a strict priority chain: when
\* the content-container tier yields no paragraph, the all-paragraphs tier
\* is tried before the whole body, so the result is made of the page's
\* paragraphs of more than 50 characters when there are any.
C16_AllParagraphsBeforeBody ==
    (tool.called /\ ContainerYieldsNothing(tool)) =>
        tool.res.out =
            ArticleOrError(tool.res.url,
                           ArticleText(SelectMap(tool.page.doc.paras,
                                                 AllParasKeep, StripText)))

\* a container with one paragraph of 20 characters and a paragraph of 200
\* characters outside it: the extractor returned the 221 characters of the
\* whole body
C16_Witness ==
    /\ pc = "done"
    /\ where = "tool"
    /\ ContainerYieldsNothing(tool)
    /\ tool.page.doc = DocMainShort
    /\ ret = <<Words(20), Lit(" "), Words(200)>>
    /\ StrLen(ret) = 221


\* the tasks the kickoff of fact_check_url has run
UrlStages == SelectSeq(stages, LAMBDA s : s.by = "url")

LaterTasks == {"research", "verify", "summarize"}

\* C17: when the extraction stage of a URL run produces an error, the
\* research, verification and summarization stages of that run are never
\* executed: the failed outcome or the recovery is chosen without them.
C17_ErrorShortCircuits ==
    (UrlCall /\ ExtractionWasError) =>
        \A i \in 1..Len(UrlStages) : UrlStages[i].task \notin LaterTasks

\* the extractor answered with an error, all five stages of the kickoff ran,
\* and only then did fact_check_url return the extraction failure
C17_Witness ==
    /\ pc = "done"
    /\ call = <<"url">>
    /\ ExtractionWasError
    /\ where = "extract_failed"
    /\ [i \in 1..Len(stages) |-> stages[i]] =
           [i \in 1..Len(CrewTasks) |-> [by |-> "url", task |-> CrewTasks[i]]]


\* the extractor of the run returned an article, not an error
ExtractionWasArticle ==
    tool.called /\ ~tool.res.raised /\ ~StartsWith(tool.res.out, S("Error"))

\* C18: when the extraction stage of a URL run returns article text,
\* fact_check_url follows the linear path to a completed report: it never
\* returns an extraction-failure message and never starts the recovery
\* scrape (no request beyond the extractor's own, no re-entry through
\* fact_check_text), whatever words the article holds and however short it is.
C18_ArticleGoesToReport ==
    /\ (pc = "done" /\ call = <<"url">> /\ ExtractionWasArticle /\ where # "fault") =>
          /\ where \in {"summary", "bbc_formatted", "raw"}
          /\ Len(net) = Len(tool.res.net)
    /\ (call = <<"url", "text">> /\ TextStages = <<>> /\ tool.called) =>
          StartsWith(tool.res.out, S("Error"))

\* the primary API gave an article of 307 characters that holds the word
\* "Error", and fact_check_url returned the extraction failure
C18_Witness ==
    /\ pc = "done"
    /\ call = <<"url">>
    /\ ExtractionWasArticle
    /\ tool.res.fallbacks = 0
    /\ tool.res.out = <<Words(200), Lit(" "), Lit("Error"), Lit(" "), Words(100)>>
    /\ StrLen(tool.res.out) = 307
    /\ where = "extract_failed"
    /\ Contains(ret, tool.res.out)


\* search_tool._run was called and has ended
SearchCall == call = <<"search">> /\ pc = "done"

\* the queries of the searches made since the call began
Searched == {net[i].query : i \in 1..Len(net)}

\* C19: for every query that is news-flavoured or holds verification
\* language, the search tool makes at least two distinct searches, one for
\* the query as given and one for the reformulated query (with the recency
\* qualifier, or with "confirmed OR verified by multiple sources").
C19_TwoSearches ==
    (SearchCall /\ ~escaped /\ (NewsFlavoured(query) \/ VerifyLanguage(query))) =>
        /\ Cardinality(Searched) >= 2
        /\ query \in Searched
        /\ query \o RecentNews \in Searched \/ query \o VerifiedBy \in Searched

\* "verify bbc" holds verification language and a news term: one search was
\* made, for "verify bbc recent news", and its results were returned
C19_Witness ==
    /\ SearchCall
    /\ ~escaped
    /\ query = <<"v", "e", "r", "i", "f", "y", " ", "b", "b", "c">>
    /\ VerifyLanguage(query)
    /\ NewsFlavoured(query)
    /\ net = <<SearchReq(query \o RecentNews)>>
    /\ ret = <<Words(300)>>

\* C20: SearchTool._run appends " recent news" to the query exactly when the
\* lower-cased query holds one of bbc, reuters, news, reported and holds
\* neither a date term (a 202x year or a month name, as a word of its own)
\* nor "recent"; in every other case the first search uses the query as it
\* was given.
C20_RecencyQualifier ==
    SearchCall =>
        /\ net # <<>>
        /\ net[1].query \in {query, query \o RecentNews}
        /\ net[1].query = query \o RecentNews
             <=> /\ \E term \in NewsTerms : Contains(QueryLower(query), term)
                 /\ ~DateSearch(QueryLower(query))
                 /\ ~Contains(QueryLower(query), Recent)

\* "bbc mayor" holds a news term and the letters of a month inside a word:
\* the search was made for "bbc mayor recent news"
C20_Witness ==
    /\ SearchCall
    /\ query = <<"b", "b", "c", " ", "m", "a", "y", "o", "r">>
    /\ net = <<SearchReq(query \o RecentNews)>>
    /\ ~escaped
    /\ ret = <<Words(300)>>


IsPost(r) == r.op = "post"

\* the requests a tool call made to the primary API, and its page fetches
Posts(c) == SelectSeq(c.res.net, IsPost)

Gets(c) == SelectSeq(c.res.net, IsGet)

\* C21: within one call of the extractor no request is retried: the primary
\* API is requested at most once and the page is fetched at most once; a
\* primary request that raised (a timeout or another failure) is followed by
\* the single page fetch and by no other primary request, and a page fetch
\* that raised ends the call with an error result.
C21_NoRetry ==
    tool.called =>
        /\ Len(Posts(tool)) <= 1
        /\ Len(Gets(tool)) <= 1
        /\ \A i, j \in 1..Len(tool.res.net) :
              (tool.res.net[i].op = "get" /\ tool.res.net[j].op = "post") => j < i
        /\ (InputPassed(tool) /\ tool.key /\ tool.presp.kind # "ok") =>
              tool.res.net = <<[op |-> "post", url |-> tool.res.url],
                               [op |-> "get", url |-> tool.res.url]>>
        /\ (tool.res.fallbacks = 1 /\ tool.page.kind = "exc") =>
              /\ ~tool.res.raised
              /\ StartsWith(tool.res.out, S("Error"))
              /\ Contains(tool.res.out, tool.page.etext)

\* the primary request raised, the page fetch timed out: one request of
\* each kind was made and the error of the fetch came back
C21_Witness ==
    /\ pc = "done"
    /\ where = "tool"
    /\ tool.key
    /\ tool.presp.kind = "exc"
    /\ tool.page.kind = "exc"
    /\ tool.page.etext = S("Read timed out.")
    /\ Len(Posts(tool)) = 1
    /\ Len(Gets(tool)) = 1
    /\ net = tool.res.net
    /\ ret = <<Lit("Error"), Lit(" scraping URL ")>> \o Emb(tool.res.url)
             \o S(": ") \o S("Read timed out.")


\* a step that calls the extractor again as it was just called
Repeated == where = "tool" /\ where' = "tool_again"

Effective(c) ==
    IF c.ctx.kind = "url" /\ c.ctx.url # <<>> /\ c.ctx.url # c.arg
    THEN c.ctx.url ELSE c.arg

\* C23: one call of FirecrawlTool._run works with a single effective URL: a
\* URL of the task context that differs from the argument replaces the
\* argument before the validation; the emptiness, type and scheme checks are
\* made on the effective URL, and the URL posted to the primary API and the
\* URL fetched by the fallback are both that URL.
C23_OneEffectiveUrl ==
    tool.called =>
        /\ tool.res.url = Effective(tool)
        /\ Effective(tool) = <<>> =>
              tool.res.out = ErrorColon \o S(" No URL provided")
        /\ Effective(tool) = NotAString =>
              tool.res.out = ErrorColon \o S(" Invalid URL type: <class 'int'>")
        /\ (Effective(tool) # <<>> /\ Effective(tool) # NotAString
            /\ ~StartsWith(Effective(tool), HTTP)
            /\ ~StartsWith(Effective(tool), HTTPS)) =>
              tool.res.out = ErrorColon \o S(" Invalid URL format. URL must start with http:// or https://")
        /\ (StartsWith(Effective(tool), HTTP) \/ StartsWith(Effective(tool), HTTPS))
              <=> tool.res.net # <<>>
        /\ \A i \in 1..Len(tool.res.net) : tool.res.net[i].url = Effective(tool)

\* the argument "not-a-url" was replaced by the URL of the context: the
\* call passed the checks, posted that URL and fetched it
C23_Witness ==
    /\ pc = "done"
    /\ where = "tool"
    /\ tool.arg = <<"n", "o", "t", "-", "a", "-", "u", "r", "l">>
    /\ tool.ctx = Ctx("url", HTTPS \o HostPlain \o <<"/", "n">>)
    /\ tool.res.net = <<[op |-> "post", url |-> tool.ctx.url],
                        [op |-> "get", url |-> tool.ctx.url]>>
    /\ ~StartsWith(ret, S("Error"))

=============================================================================
